---- MODULE Spec2Model ----
(***************************************************************************)
(* A model of cogs/reactions.py (ReactionCog): the lineup roster, the      *)
(* anchor registry, the single lineup display message, and the event       *)
(* handlers that drive them.  Every handler is a coroutine: it runs        *)
(* atomically from one platform call (await) to the next, and other        *)
(* handlers may run while it is suspended in a platform call.  One action  *)
(* of the model is one such atomic stretch of one handler.                 *)
(***************************************************************************)
EXTENDS Integers, Sequences, FiniteSets, TLC

\* ---------------------------------------------------------------- bounds
NumUsers == 6        \* non-bot users 1..NumUsers
NumMsgs == 2         \* chat messages users may send, ids 1..NumMsgs
MaxEvents == 3       \* events the platform delivers in one run from Init
MaxJoinedEvents == 2 \* events the platform delivers in one run from InitJoined
MaxTasks == 2        \* handlers suspended in a platform call at one time
MaxFails == 1        \* platform calls that fail transiently in one run
MaxPosts == 3        \* messages the bot itself sends in one run

\* --------------------------------------------------- program configuration
None == 0
bot_user == 0
max_participants == 5
target_role_ids == {"776328568036392972", "1282865161945874543", "1416872124236431490"}
OtherRole == "other_role"
reaction_emoji == [isint |-> FALSE, value |-> "U+2705"]

Users == 1..NumUsers
Actors == Users \cup {bot_user}
Msgs == 1..NumMsgs
Channels == {1, 2}
TaskIds == 1..MaxTasks

\* The channel a chat message lives in (a message never changes channel).
ChannelOf(m) == IF m % 2 = 1 THEN 1 ELSE 2

\* Role mentions a message may carry.
MentionChoices == { {}, {OtherRole}, {"1416872124236431490", OtherRole} }

\* Emoji objects an event may carry: the unicode emoji as a PartialEmoji (raw
\* payloads), the same emoji as a plain str (Reaction.emoji), another unicode
\* emoji, and a custom emoji.
Emojis == { [name |-> "U+2705", id |-> None, str |-> "U+2705"],
            [name |-> "no_name", id |-> None, str |-> "U+2705"],
            [name |-> "U+1F44D", id |-> None, str |-> "U+1F44D"],
            [name |-> "check", id |-> 7, str |-> "<:check:7>"] }

\* Display names: Member.display_name, User.name and the synthetic f"user_{id}".
display_name(u) == <<"display_name", u>>
user_name(u) == <<"name", u>>
synthetic_name(u) == <<"user_", u>>

VARIABLES
    participants_order,   \* list[int]: join order
    participants_names,   \* dict[int, str]
    lineup_channel_id,    \* int | None
    lineup_message_id,    \* int | None
    anchor_messages,      \* set[tuple[int, int]]
    chat,                 \* platform: the chat messages received so far
    botReact,             \* platform: chat messages carrying the bot's reaction
    posts,                \* platform: messages the bot sent (id = NumMsgs + index)
    tasks,                \* handlers suspended in a platform call
    left,                 \* events the platform may still deliver
    fails,                \* transient platform failures so far
    raised,               \* some handler terminated by raising
    dropped,              \* history: a reaction on a forgotten anchor was ignored
    lost                  \* history: a reaction was ignored during a promotion

vars == <<participants_order, participants_names, lineup_channel_id,
          lineup_message_id, anchor_messages, chat, botReact, posts, tasks,
          left, fails, raised, dropped, lost>>

cogVars == <<participants_order, participants_names, lineup_channel_id,
             lineup_message_id, anchor_messages>>

\* ---------------------------------------------------------------- helpers
Range(s) == {s[i] : i \in 1..Len(s)}

Last(s) == s[Len(s)]

\* (a removal that moves the last element into the place of x)
Without_swap(s, x) ==
    IF \A i \in 1..Len(s) : s[i] # x THEN s
    ELSE LET k == CHOOSE i \in 1..Len(s) :
                     s[i] = x /\ \A j \in 1..(i - 1) : s[j] # x
         IN [i \in 1..(Len(s) - 1) |-> IF i = k THEN s[Len(s)] ELSE s[i]]

RECURSIVE Without(_, _)
\* list.remove(x): the list without the first occurrence of x
Without(s, x) ==
    IF s = <<>> THEN <<>>
    ELSE IF Head(s) = x THEN Tail(s)
    ELSE <<Head(s)>> \o Without(Tail(s), x)

\* All orders in which a set can be listed (list(a_set) fixes one of them).
Orders(S) == {s \in [1..Cardinality(S) -> S] : Range(s) = S}

\* bot.get_channel: the cache holds every channel the bot receives events from.
get_channel(id) == IF id \in Channels THEN id ELSE None

_emoji_matches(emoji_obj, expect) ==
    IF expect.isint
    THEN emoji_obj.id = expect.value
    ELSE (emoji_obj.name = expect.value) \/ (emoji_obj.str = expect.value)

\* (a listener that takes every message for an anchor)
_is_anchor_always(channel_id, message_id) == TRUE

_is_anchor(channel_id, message_id) == <<channel_id, message_id>> \in anchor_messages

\* (a scan that takes any role mention for a target role)
mentions_any(role_mentions) == role_mentions # {}

\* any(role.id in self.target_role_ids for role in message.role_mentions)
mentions_target(role_mentions) == \E r \in role_mentions : r \in target_role_ids

\* (_add_user without its test for a user already present)
_add_user_again(order, names, user_id, name) ==
    IF Len(order) >= max_participants
    THEN [ok |-> FALSE, order |-> order, names |-> names]
    ELSE [ok |-> TRUE,
          order |-> Append(order, user_id),
          names |-> [u \in DOMAIN names \cup {user_id} |->
                        IF u = user_id THEN name ELSE names[u]]]

\* (_add_user without its capacity check)
_add_user_unbounded(order, names, user_id, name) ==
    IF user_id \in DOMAIN names
    THEN [ok |-> FALSE, order |-> order, names |-> names]
    ELSE [ok |-> TRUE,
          order |-> Append(order, user_id),
          names |-> [u \in DOMAIN names \cup {user_id} |->
                        IF u = user_id THEN name ELSE names[u]]]

\* _add_user: the result and the roster it leaves
_add_user(order, names, user_id, name) ==
    IF user_id \in DOMAIN names
    THEN [ok |-> FALSE, order |-> order, names |-> names]
    ELSE IF Len(order) >= max_participants
    THEN [ok |-> FALSE, order |-> order, names |-> names]
    ELSE [ok |-> TRUE,
          order |-> Append(order, user_id),
          names |-> [u \in DOMAIN names \cup {user_id} |->
                        IF u = user_id THEN name ELSE names[u]]]

\* (_remove_user without its pop of the name)
_remove_user_keep_name(order, names, user_id) ==
    IF user_id \notin DOMAIN names
    THEN [ok |-> FALSE, order |-> order, names |-> names]
    ELSE [ok |-> TRUE, order |-> Without(order, user_id), names |-> names]

\* _remove_user: the result and the roster it leaves
_remove_user(order, names, user_id) ==
    IF user_id \notin DOMAIN names
    THEN [ok |-> FALSE, order |-> order, names |-> names]
    ELSE [ok |-> TRUE,
          order |-> Without(order, user_id),
          names |-> [u \in DOMAIN names \ {user_id} |-> names[u]]]

NoNames == [u \in {} |-> <<>>]

\* (a rendering that announces READY one participant early)
_lineup_text_early(order, names) ==
    IF order = <<>>
    THEN [header |-> "empty", mentions |-> <<>>, lines |-> <<>>]
    ELSE [header |-> IF Len(order) >= max_participants - 1 THEN "ready" ELSE "plain",
          mentions |-> IF Len(order) >= max_participants - 1 THEN order ELSE <<>>,
          lines |-> [i \in 1..Len(order) |-> <<i, names[order[i]]>>]]

\* _lineup_text: the header, the mentions in the header, the numbered lines
_lineup_text(order, names) ==
    IF order = <<>>
    THEN [header |-> "empty", mentions |-> <<>>, lines |-> <<>>]
    ELSE [header |-> IF Len(order) = max_participants THEN "ready" ELSE "plain",
          mentions |-> IF Len(order) = max_participants THEN order ELSE <<>>,
          lines |-> [i \in 1..Len(order) |-> <<i, names[order[i]]>>]]

NoText == [header |-> "none", mentions |-> <<>>, lines |-> <<>>]

\* ------------------------------------------------------------------ tasks
\* A suspended handler: which listener (kind), the platform call it is suspended
\* in (pc), and its locals: the message and user it is about (on, user), the
\* channel to sync to (channel), the message being fetched or edited (fch, msg),
\* the content being written (text), the anchors still to visit (todo); and,
\* as history of a reset, its snapshot (snap), the anchors it has visited (tried)
\* and whether another handler added anything since it cleared (touched); as
\* history of a sync, the messages its fetches failed on (gone) and the number
\* of sends and edits it has completed (writes); as history of a reset, the
\* steps of clear() it has taken, in the order it took them (log).
IdleTask == [kind |-> "idle", pc |-> "idle", on |-> None, user |-> None,
             channel |-> None, msg |-> None, fch |-> None, text |-> NoText,
             todo |-> <<>>, snap |-> {}, tried |-> {}, touched |-> FALSE,
             gone |-> {}, writes |-> 0, log |-> <<>>]

SyncPcs == {"ens_fetch", "ens_send", "upd_fetch", "upd_edit", "upd_send"}

HasFree == \E t \in TaskIds : tasks[t].kind = "idle"
FreeSlot == CHOOSE t \in TaskIds :
                /\ tasks[t].kind = "idle"
                /\ \A s \in TaskIds : s < t => tasks[s].kind # "idle"

\* What a suspended handler keeps of itself across its steps.
Base(task) == [IdleTask EXCEPT !.kind = task.kind, !.channel = task.channel,
                               !.on = task.on, !.user = task.user,
                               !.snap = task.snap, !.tried = task.tried,
                               !.touched = task.touched, !.gone = task.gone,
                               !.writes = task.writes, !.log = task.log]

\* A reset handler past its clearing step sees an addition made by another
\* handler (history, kept to state what a reset leaves behind).
Touch(ts) == [t \in TaskIds |->
                 IF ts[t].kind = "clear" /\ ts[t].pc # "clr_defer"
                 THEN [ts[t] EXCEPT !.touched = TRUE] ELSE ts[t]]

PostId(i) == NumMsgs + i
PostIndex(id) == id - NumMsgs
Alive(id) == /\ PostIndex(id) \in 1..Len(posts)
             /\ posts[PostIndex(id)].alive
DeadPost == [channel |-> None, content |-> NoText, alive |-> FALSE]

\* ----------------------------------------------------- the display sync
\* _update_lineup_message(channel) up to its first platform call, which is
\* _ensure_lineup_message's fetch of the recorded message or, when no identity
\* is recorded, its send.
StartSync(task, channel, order, names) ==
    IF /\ lineup_channel_id # None
       /\ lineup_message_id # None
       /\ get_channel(lineup_channel_id) # None
    THEN [Base(task) EXCEPT !.pc = "ens_fetch", !.channel = channel,
                            !.msg = lineup_message_id, !.fch = lineup_channel_id]
    ELSE [Base(task) EXCEPT !.pc = "ens_send", !.channel = channel,
                            !.text = _lineup_text(order, names)]

\* The handler after its sync returned: the reset handler goes on to finalize
\* its acknowledgment, every other handler is done.
Finish(task) ==
    IF task.kind = "clear"
    THEN [Base(task) EXCEPT !.pc = "clr_final",
                            !.log = @ \o <<"synced", "final">>]
    ELSE IdleTask

\* _update_lineup_message after _ensure_lineup_message returned: the channel
\* lookup, the early return, the fetch.
AfterEnsure(task, lch, lmid) ==
    IF get_channel(lch) = None \/ lmid = None
    THEN Finish(task)
    ELSE [Base(task) EXCEPT !.pc = "upd_fetch", !.msg = lmid, !.fch = lch]

\* An exception leaves the handler: on_message catches it, the others end by it.
Raise(t) ==
    /\ tasks' = [tasks EXCEPT ![t] = IdleTask]
    /\ raised' = (raised \/ tasks[t].kind # "on_message")

CanFail == fails < MaxFails

\* fetch_message fails when the message is gone, or transiently
FetchFails(t) ==
    \/ ~Alive(tasks[t].msg) /\ fails' = fails
    \/ CanFail /\ fails' = fails + 1

EnsFetchOk(t) ==
    /\ tasks[t].pc = "ens_fetch"
    /\ Alive(tasks[t].msg)
    /\ tasks' = [tasks EXCEPT ![t] =
                    AfterEnsure(tasks[t], lineup_channel_id, lineup_message_id)]
    /\ UNCHANGED <<cogVars, chat, dropped, lost, botReact, posts, left, fails, raised>>

\* (an existence check that takes a failed fetch for a success)
EnsFetchFail_edit(t) ==
    /\ tasks[t].pc = "ens_fetch"
    /\ FetchFails(t)
    /\ tasks' = [tasks EXCEPT ![t] =
                    [Base(tasks[t]) EXCEPT !.pc = "upd_edit", !.msg = tasks[t].msg,
                        !.gone = @ \cup {tasks[t].msg},
                        !.text = _lineup_text(participants_order, participants_names)]]
    /\ UNCHANGED <<cogVars, chat, dropped, lost, botReact, posts, left, raised>>

EnsFetchFail(t) ==
    /\ tasks[t].pc = "ens_fetch"
    /\ FetchFails(t)
    /\ tasks' = [tasks EXCEPT ![t] =
                    [Base(tasks[t]) EXCEPT !.pc = "ens_send",
                        !.gone = @ \cup {tasks[t].msg},
                        !.text = _lineup_text(participants_order, participants_names)]]
    /\ UNCHANGED <<cogVars, chat, dropped, lost, botReact, posts, left, raised>>

\* channel.send succeeded: the platform holds a new message
Sent(t) ==
    /\ Len(posts) < MaxPosts
    /\ posts' = Append(posts, [channel |-> tasks[t].channel,
                               content |-> tasks[t].text, alive |-> TRUE])
    /\ lineup_channel_id' = tasks[t].channel
    /\ lineup_message_id' = PostId(Len(posts) + 1)

EnsSendOk(t) ==
    /\ tasks[t].pc = "ens_send"
    /\ Sent(t)
    /\ tasks' = [tasks EXCEPT ![t] =
                    AfterEnsure([tasks[t] EXCEPT !.writes = @ + 1],
                                lineup_channel_id', lineup_message_id')]
    /\ UNCHANGED <<participants_order, participants_names, anchor_messages,
                   chat, dropped, lost, botReact, left, fails, raised>>

EnsSendFail(t) ==
    /\ tasks[t].pc = "ens_send"
    /\ CanFail
    /\ fails' = fails + 1
    /\ Raise(t)
    /\ UNCHANGED <<cogVars, chat, dropped, lost, botReact, posts, left>>

UpdFetchOk(t) ==
    /\ tasks[t].pc = "upd_fetch"
    /\ Alive(tasks[t].msg)
    /\ tasks' = [tasks EXCEPT ![t] =
                    [Base(tasks[t]) EXCEPT !.pc = "upd_edit", !.msg = tasks[t].msg,
                        !.text = _lineup_text(participants_order, participants_names)]]
    /\ UNCHANGED <<cogVars, chat, dropped, lost, botReact, posts, left, fails, raised>>

UpdFetchFail(t) ==
    /\ tasks[t].pc = "upd_fetch"
    /\ FetchFails(t)
    /\ tasks' = [tasks EXCEPT ![t] =
                    [Base(tasks[t]) EXCEPT !.pc = "upd_send",
                        !.gone = @ \cup {tasks[t].msg},
                        !.text = _lineup_text(participants_order, participants_names)]]
    /\ UNCHANGED <<cogVars, chat, dropped, lost, botReact, posts, left, raised>>

UpdEditOk(t) ==
    /\ tasks[t].pc = "upd_edit"
    /\ Alive(tasks[t].msg)
    /\ posts' = [posts EXCEPT ![PostIndex(tasks[t].msg)].content = tasks[t].text]
    /\ tasks' = [tasks EXCEPT ![t] = Finish([tasks[t] EXCEPT !.writes = @ + 1])]
    /\ UNCHANGED <<cogVars, chat, dropped, lost, botReact, left, fails, raised>>

UpdEditFail(t) ==
    /\ tasks[t].pc = "upd_edit"
    /\ FetchFails(t)
    /\ tasks' = [tasks EXCEPT ![t] =
                    [Base(tasks[t]) EXCEPT !.pc = "upd_send",
                        !.text = _lineup_text(participants_order, participants_names)]]
    /\ UNCHANGED <<cogVars, chat, dropped, lost, botReact, posts, left, raised>>

UpdSendOk(t) ==
    /\ tasks[t].pc = "upd_send"
    /\ Sent(t)
    /\ tasks' = [tasks EXCEPT ![t] = Finish([tasks[t] EXCEPT !.writes = @ + 1])]
    /\ UNCHANGED <<participants_order, participants_names, anchor_messages,
                   chat, dropped, lost, botReact, left, fails, raised>>

UpdSendFail(t) ==
    /\ tasks[t].pc = "upd_send"
    /\ CanFail
    /\ fails' = fails + 1
    /\ Raise(t)
    /\ UNCHANGED <<cogVars, chat, dropped, lost, botReact, posts, left>>

\* ------------------------------------------------------------- the users
\* User ids are opaque to the cog (it compares them for equality only), so the
\* users are named in the order they first show up: a user may act only when
\* every user with a smaller id is already part of the state.
UsersOfText(text) == {text.lines[i][2][2] : i \in 1..Len(text.lines)}

Appeared ==
    Range(participants_order)
      \cup {chat[m].author : m \in {x \in Msgs : chat[x].seen}}
      \cup UNION {UsersOfText(posts[i].content) : i \in 1..Len(posts)}
      \cup UNION {UsersOfText(tasks[t].text) : t \in TaskIds}

MayAct(user) == user = bot_user \/ \A v \in 1..(user - 1) : v \in Appeared

\* ------------------------------------------------------------ on_message
\* (listeners that do not recognise the bot's own events)
is_bot_never(user) == FALSE

is_bot(user) == user = bot_user

\* (a handler that forgets to record the anchor)
promote_nothing(anchors, channel_id, message_id) == anchors

promote(anchors, channel_id, message_id) == anchors \cup {<<channel_id, message_id>>}

NewTask(kind, pc, channel) ==
    [IdleTask EXCEPT !.kind = kind, !.pc = pc, !.channel = channel]

\* An event its listener returns from without doing anything changes nothing
\* (and is not counted against MaxEvents).
Ignored == UNCHANGED vars

\* A message arrives: the guards, then the add_reaction call.  The platform
\* state keeps the author and the role mentions of the messages the handler
\* goes on with.
OnMessage(m, author, role_mentions) ==
    /\ left > 0
    /\ MayAct(author)
    /\ ~chat[m].seen
    /\ IF is_bot(author) \/ ~mentions_target(role_mentions)
       THEN Ignored
       ELSE /\ HasFree
            /\ left' = left - 1
            /\ chat' = [chat EXCEPT ![m] = [seen |-> TRUE, author |-> author,
                                            roles |-> role_mentions,
                                            promoted |-> FALSE]]
            /\ tasks' = [tasks EXCEPT ![FreeSlot] =
                            [NewTask("on_message", "msg_react", ChannelOf(m))
                                EXCEPT !.on = m]]
            /\ UNCHANGED <<cogVars, botReact, posts, fails, raised, dropped, lost>>

\* add_reaction returned: record the anchor, auto-add the author, start the sync.
MsgReactOk(t) ==
    /\ tasks[t].pc = "msg_react"
    /\ LET m == tasks[t].on
           a == chat[m].author
           r == _add_user(participants_order, participants_names, a, display_name(a))
       IN /\ botReact' = botReact \cup {m}
          /\ chat' = [chat EXCEPT ![m].promoted = TRUE]
          /\ anchor_messages' = promote(anchor_messages, ChannelOf(m), m)
          /\ participants_order' = r.order
          /\ participants_names' = r.names
          /\ tasks' = Touch([tasks EXCEPT ![t] =
                              IF r.ok
                              THEN StartSync(tasks[t], ChannelOf(m), r.order, r.names)
                              ELSE IdleTask])
    /\ UNCHANGED <<lineup_channel_id, lineup_message_id, posts, left, fails,
                   raised, dropped, lost>>

\* add_reaction raised: caught by on_message's except, nothing is recorded.
MsgReactFail(t) ==
    /\ tasks[t].pc = "msg_react"
    /\ CanFail
    /\ fails' = fails + 1
    /\ Raise(t)
    /\ UNCHANGED <<cogVars, chat, dropped, lost, botReact, posts, left>>

\* ------------------------------------------------------ reaction listeners
FullNotice == [header |-> "full", mentions |-> <<>>, lines |-> <<>>]

\* The listeners' common guards: the actor, the emoji, the anchor.
Accepts(user, m, emoji) ==
    /\ ~is_bot(user)
    /\ _emoji_matches(emoji, reaction_emoji)
    /\ _is_anchor(ChannelOf(m), m)

\* The event is ignored; history notes a reaction with the configured emoji
\* by a user, ignored because its message is an anchor no longer.
Dropped(user, m, emoji) ==
    IF /\ ~is_bot(user)
       /\ _emoji_matches(emoji, reaction_emoji)
       /\ chat[m].promoted
       /\ ~dropped
    THEN /\ dropped' = TRUE
         /\ UNCHANGED <<cogVars, chat, botReact, posts, tasks, left, fails, raised,
                        lost>>
    ELSE Ignored

\* The reaction of a user who is not a participant arrives, while the roster
\* has room, on a message whose on_message handler is suspended in add_reaction:
\* the pair is not in anchor_messages yet.
Early(user, m, emoji) ==
    /\ ~is_bot(user)
    /\ _emoji_matches(emoji, reaction_emoji)
    /\ \E t \in TaskIds : tasks[t].pc = "msg_react" /\ tasks[t].on = m
    /\ user \notin DOMAIN participants_names
    /\ Len(participants_order) < max_participants

\* An add event that fails the listeners' guards is ignored; history notes the
\* first one that came early (an event that counts, its reaction staying on
\* the message).
Missed(user, m, emoji) ==
    IF Early(user, m, emoji) /\ ~lost
    THEN /\ lost' = TRUE
         /\ left' = left - 1
         /\ UNCHANGED <<cogVars, chat, botReact, posts, tasks, fails, raised,
                        dropped>>
    ELSE Dropped(user, m, emoji)

OnReactionAdd(user, m, emoji, isMember) ==
    /\ left > 0
    /\ MayAct(user)
    /\ IF ~Accepts(user, m, emoji)
       THEN Missed(user, m, emoji)
       ELSE LET display == IF isMember THEN display_name(user) ELSE user_name(user)
                r == _add_user(participants_order, participants_names, user, display)
            IN IF r.ok
               THEN /\ HasFree
                    /\ left' = left - 1
                    /\ participants_order' = r.order
                    /\ participants_names' = r.names
                    /\ tasks' = Touch([tasks EXCEPT ![FreeSlot] =
                           StartSync(NewTask("on_reaction_add", "idle", None),
                                     ChannelOf(m), r.order, r.names)])
                    /\ UNCHANGED <<lineup_channel_id, lineup_message_id,
                                   anchor_messages, chat, dropped, lost, botReact, posts, fails, raised>>
               ELSE IF Len(participants_order) >= max_participants
               THEN /\ HasFree
                    /\ left' = left - 1
                    /\ tasks' = [tasks EXCEPT ![FreeSlot] =
                           [NewTask("on_reaction_add", "notice", ChannelOf(m))
                               EXCEPT !.user = user]]
                    /\ UNCHANGED <<cogVars, chat, dropped, lost, botReact, posts, fails, raised>>
               ELSE Ignored

\* The "lineup full" notice was sent.
NoticeOk(t) ==
    /\ tasks[t].pc = "notice"
    /\ Len(posts) < MaxPosts
    /\ posts' = Append(posts, [channel |-> tasks[t].channel,
                               content |-> FullNotice, alive |-> TRUE])
    /\ tasks' = [tasks EXCEPT ![t] = IdleTask]
    /\ UNCHANGED <<cogVars, chat, dropped, lost, botReact, left, fails, raised>>

\* The notice could not be sent: swallowed.
NoticeFail(t) ==
    /\ tasks[t].pc = "notice"
    /\ CanFail
    /\ fails' = fails + 1
    /\ tasks' = [tasks EXCEPT ![t] = IdleTask]
    /\ UNCHANGED <<cogVars, chat, dropped, lost, botReact, posts, left, raised>>

OnRawReactionAdd(user_id, m, emoji, memberFound) ==
    /\ left > 0
    /\ MayAct(user_id)
    /\ IF ~Accepts(user_id, m, emoji)
       THEN Missed(user_id, m, emoji)
       ELSE LET display == IF memberFound THEN display_name(user_id)
                                           ELSE synthetic_name(user_id)
                ch == get_channel(ChannelOf(m))
                r == _add_user(participants_order, participants_names, user_id, display)
            IN IF ch # None /\ r.ok
               THEN /\ HasFree
                    /\ left' = left - 1
                    /\ participants_order' = r.order
                    /\ participants_names' = r.names
                    /\ tasks' = Touch([tasks EXCEPT ![FreeSlot] =
                           StartSync(NewTask("on_raw_reaction_add", "idle", None),
                                     ch, r.order, r.names)])
                    /\ UNCHANGED <<lineup_channel_id, lineup_message_id,
                                   anchor_messages, chat, dropped, lost, botReact, posts, fails, raised>>
               ELSE Ignored

OnReactionRemove(user, m, emoji) ==
    /\ left > 0
    /\ MayAct(user)
    /\ IF ~Accepts(user, m, emoji)
       THEN Dropped(user, m, emoji)
       ELSE LET r == _remove_user(participants_order, participants_names, user)
            IN IF r.ok
               THEN /\ HasFree
                    /\ left' = left - 1
                    /\ participants_order' = r.order
                    /\ participants_names' = r.names
                    /\ tasks' = [tasks EXCEPT ![FreeSlot] =
                           StartSync(NewTask("on_reaction_remove", "idle", None),
                                     ChannelOf(m), r.order, r.names)]
                    /\ UNCHANGED <<lineup_channel_id, lineup_message_id,
                                   anchor_messages, chat, dropped, lost, botReact, posts, fails, raised>>
               ELSE Ignored

OnRawReactionRemove(user_id, m, emoji) ==
    /\ left > 0
    /\ MayAct(user_id)
    /\ IF ~Accepts(user_id, m, emoji)
       THEN Dropped(user_id, m, emoji)
       ELSE LET ch == get_channel(ChannelOf(m))
                r == _remove_user(participants_order, participants_names, user_id)
            IN IF ch # None /\ r.ok
               THEN /\ HasFree
                    /\ left' = left - 1
                    /\ participants_order' = r.order
                    /\ participants_names' = r.names
                    /\ tasks' = [tasks EXCEPT ![FreeSlot] =
                           StartSync(NewTask("on_raw_reaction_remove", "idle", None),
                                     ch, r.order, r.names)]
                    /\ UNCHANGED <<lineup_channel_id, lineup_message_id,
                                   anchor_messages, chat, dropped, lost, botReact, posts, fails, raised>>
               ELSE Ignored

\* ------------------------------------------------------------------ /clear
\* (a reset that clears the lineup and the anchors before it acknowledges)
Clear_before_defer(channel) ==
    /\ left > 0
    /\ left' = left - 1
    /\ HasFree
    /\ participants_order' = <<>>
    /\ participants_names' = NoNames
    /\ anchor_messages' = {}
    /\ tasks' = [tasks EXCEPT ![FreeSlot] = NewTask("clear", "clr_defer", channel)]
    /\ UNCHANGED <<lineup_channel_id, lineup_message_id, chat, dropped, lost, botReact,
                   posts, fails, raised>>

\* The command arrives: interaction.response.defer is called.
Clear(channel) ==
    /\ left > 0
    /\ left' = left - 1
    /\ HasFree
    /\ tasks' = [tasks EXCEPT ![FreeSlot] = NewTask("clear", "clr_defer", channel)]
    /\ UNCHANGED <<cogVars, chat, dropped, lost, botReact, posts, fails, raised>>

\* (a reset that snapshots the anchors and does not clear them)
SnapshotAndKeep(anchors) == [snapshot |-> anchors, left |-> anchors]

\* anchors = list(self.anchor_messages); self.anchor_messages.clear()
SnapshotAndClear(anchors) == [snapshot |-> anchors, left |-> {}]

RECURSIVE NextRetract(_, _, _, _)
\* The loop over the snapshot: _remove_bots_reaction_on up to its fetch for the
\* next anchor (an anchor whose channel is unknown is skipped), and after the
\* last anchor the sync to the invoking channel.
NextRetract(task, todo, order, names) ==
    IF todo = <<>>
    THEN StartSync([task EXCEPT !.log = Append(@, "sync")], task.channel,
                   order, names)
    ELSE IF get_channel(Head(todo)[1]) = None
    THEN NextRetract([task EXCEPT !.tried = @ \cup {Head(todo)},
                                  !.log = Append(@, "retract")],
                     Tail(todo), order, names)
    ELSE [Base(task) EXCEPT !.pc = "clr_fetch", !.fch = Head(todo)[1],
                            !.msg = Head(todo)[2], !.todo = Tail(todo),
                            !.tried = @ \cup {Head(todo)},
                            !.log = Append(@, "retract")]

\* (a loop that a failed retraction ends)
AfterRetractFailure_stop(task, order, names) ==
    StartSync(task, task.channel, order, names)

\* What the loop does after a failure inside _remove_bots_reaction_on.
AfterRetractFailure(task, order, names) ==
    NextRetract(task, task.todo, order, names)

\* defer returned: clear the roster, snapshot and clear the anchors, start the
\* retraction loop.
ClrDeferOk(t) ==
    /\ tasks[t].pc = "clr_defer"
    /\ LET sc == SnapshotAndClear(anchor_messages)
       IN /\ participants_order' = <<>>
          /\ participants_names' = NoNames
          /\ anchor_messages' = sc.left
          /\ \E todo \in Orders(sc.snapshot) :
                tasks' = [tasks EXCEPT ![t] =
                            NextRetract([tasks[t] EXCEPT !.snap = sc.snapshot,
                                            !.log = <<"defer", "roster", "registry">>],
                                        todo, <<>>, NoNames)]
    /\ UNCHANGED <<lineup_channel_id, lineup_message_id, chat, dropped, lost, botReact, posts,
                   left, fails, raised>>

ClrDeferFail(t) ==
    /\ tasks[t].pc = "clr_defer"
    /\ CanFail
    /\ fails' = fails + 1
    /\ Raise(t)
    /\ UNCHANGED <<cogVars, chat, dropped, lost, botReact, posts, left>>

\* The anchor message was fetched: remove the bot's reaction if it carries one.
ClrFetchOk(t) ==
    /\ tasks[t].pc = "clr_fetch"
    /\ tasks' = [tasks EXCEPT ![t] =
                    IF tasks[t].msg \in botReact
                    THEN [tasks[t] EXCEPT !.pc = "clr_unreact"]
                    ELSE NextRetract(tasks[t], tasks[t].todo,
                                     participants_order, participants_names)]
    /\ UNCHANGED <<cogVars, chat, dropped, lost, botReact, posts, left, fails, raised>>

ClrFetchFail(t) ==
    /\ tasks[t].pc = "clr_fetch"
    /\ CanFail
    /\ fails' = fails + 1
    /\ tasks' = [tasks EXCEPT ![t] =
                    AfterRetractFailure(tasks[t], participants_order, participants_names)]
    /\ UNCHANGED <<cogVars, chat, dropped, lost, botReact, posts, left, raised>>

ClrUnreactOk(t) ==
    /\ tasks[t].pc = "clr_unreact"
    /\ botReact' = botReact \ {tasks[t].msg}
    /\ tasks' = [tasks EXCEPT ![t] =
                    NextRetract(tasks[t], tasks[t].todo,
                                participants_order, participants_names)]
    /\ UNCHANGED <<cogVars, chat, dropped, lost, posts, left, fails, raised>>

ClrUnreactFail(t) ==
    /\ tasks[t].pc = "clr_unreact"
    /\ CanFail
    /\ fails' = fails + 1
    /\ tasks' = [tasks EXCEPT ![t] =
                    AfterRetractFailure(tasks[t], participants_order, participants_names)]
    /\ UNCHANGED <<cogVars, chat, dropped, lost, botReact, posts, left, raised>>

\* edit_original_response returned: the command is done.
ClrFinalOk(t) ==
    /\ tasks[t].pc = "clr_final"
    /\ tasks' = [tasks EXCEPT ![t] = IdleTask]
    /\ UNCHANGED <<cogVars, chat, dropped, lost, botReact, posts, left, fails, raised>>

ClrFinalFail(t) ==
    /\ tasks[t].pc = "clr_final"
    /\ CanFail
    /\ fails' = fails + 1
    /\ Raise(t)
    /\ UNCHANGED <<cogVars, chat, dropped, lost, botReact, posts, left>>

\* ---------------------------------------------------------------- on_ready
\* (an on_ready that forgets the lineup message as well)
OnReady_forget_display ==
    /\ left > 0
    /\ left' = left - 1
    /\ participants_order # <<>> \/ anchor_messages # {}
    /\ participants_order' = <<>>
    /\ participants_names' = NoNames
    /\ anchor_messages' = {}
    /\ lineup_channel_id' = None
    /\ lineup_message_id' = None
    /\ UNCHANGED <<chat, dropped, lost, botReact, posts, tasks, fails, raised>>

OnReady ==
    /\ left > 0
    /\ left' = left - 1
    /\ participants_order # <<>> \/ anchor_messages # {}
    /\ participants_order' = <<>>
    /\ participants_names' = NoNames
    /\ anchor_messages' = {}
    /\ UNCHANGED <<lineup_channel_id, lineup_message_id, chat, dropped, lost, botReact, posts,
                   tasks, fails, raised>>

\* ------------------------------------------------------------- environment
\* Someone deletes a message the bot sent.
DeletePost(i) ==
    /\ left > 0
    /\ left' = left - 1
    /\ i \in 1..Len(posts)
    /\ posts[i].alive
    /\ posts' = [posts EXCEPT ![i] = DeadPost]
    /\ UNCHANGED <<cogVars, chat, dropped, lost, botReact, tasks, fails, raised>>

\* ----------------------------------------------------------- specification
Unseen == [seen |-> FALSE, author |-> None, roles |-> {}, promoted |-> FALSE]

Init ==
    /\ participants_order = <<>>
    /\ participants_names = NoNames
    /\ lineup_channel_id = None
    /\ lineup_message_id = None
    /\ anchor_messages = {}
    /\ chat = [m \in Msgs |-> Unseen]
    /\ botReact = {}
    /\ posts = <<>>
    /\ tasks = [t \in TaskIds |-> IdleTask]
    /\ left = MaxEvents
    /\ fails = 0
    /\ raised = FALSE
    /\ dropped = FALSE
    /\ lost = FALSE

Next ==
    \/ \E m \in Msgs, a \in Actors, r \in MentionChoices : OnMessage(m, a, r)
    \/ \E u \in Actors, m \in Msgs, e \in Emojis, b \in BOOLEAN : OnReactionAdd(u, m, e, b)
    \/ \E u \in Actors, m \in Msgs, e \in Emojis, b \in BOOLEAN : OnRawReactionAdd(u, m, e, b)
    \/ \E u \in Actors, m \in Msgs, e \in Emojis : OnReactionRemove(u, m, e)
    \/ \E u \in Actors, m \in Msgs, e \in Emojis : OnRawReactionRemove(u, m, e)
    \/ \E c \in Channels : Clear(c)
    \/ OnReady
    \/ \E i \in 1..MaxPosts : DeletePost(i)
    \/ \E t \in TaskIds : MsgReactOk(t)
    \/ \E t \in TaskIds : MsgReactFail(t)
    \/ \E t \in TaskIds : NoticeOk(t)
    \/ \E t \in TaskIds : NoticeFail(t)
    \/ \E t \in TaskIds : EnsFetchOk(t)
    \/ \E t \in TaskIds : EnsFetchFail(t)
    \/ \E t \in TaskIds : EnsSendOk(t)
    \/ \E t \in TaskIds : EnsSendFail(t)
    \/ \E t \in TaskIds : UpdFetchOk(t)
    \/ \E t \in TaskIds : UpdFetchFail(t)
    \/ \E t \in TaskIds : UpdEditOk(t)
    \/ \E t \in TaskIds : UpdEditFail(t)
    \/ \E t \in TaskIds : UpdSendOk(t)
    \/ \E t \in TaskIds : UpdSendFail(t)
    \/ \E t \in TaskIds : ClrDeferOk(t)
    \/ \E t \in TaskIds : ClrDeferFail(t)
    \/ \E t \in TaskIds : ClrFetchOk(t)
    \/ \E t \in TaskIds : ClrFetchFail(t)
    \/ \E t \in TaskIds : ClrUnreactOk(t)
    \/ \E t \in TaskIds : ClrUnreactFail(t)
    \/ \E t \in TaskIds : ClrFinalOk(t)
    \/ \E t \in TaskIds : ClrFinalFail(t)

\* A session under way: user 1 mentioned a target role in message 1 and was
\* auto-added, users 2, 3 and 4 reacted on it, every handler has completed and
\* the lineup message shows the four of them.  (Init reaches this state by
\* OnMessage(1, 1, ..), MsgReactOk, EnsSendOk, UpdFetchOk, UpdEditOk and three
\* times OnReactionAdd, EnsFetchOk, UpdFetchOk, UpdEditOk.)
JoinedOrder == <<1, 2, 3, 4>>
JoinedNames == [u \in Range(JoinedOrder) |-> display_name(u)]

InitJoined ==
    /\ participants_order = JoinedOrder
    /\ participants_names = JoinedNames
    /\ lineup_channel_id = ChannelOf(1)
    /\ lineup_message_id = PostId(1)
    /\ anchor_messages = {<<ChannelOf(1), 1>>}
    /\ chat = [m \in Msgs |->
                 IF m = 1
                 THEN [seen |-> TRUE, author |-> 1, promoted |-> TRUE,
                       roles |-> {"1416872124236431490", OtherRole}]
                 ELSE Unseen]
    /\ botReact = {1}
    /\ posts = << [channel |-> ChannelOf(1),
                   content |-> _lineup_text(JoinedOrder, JoinedNames),
                   alive |-> TRUE] >>
    /\ tasks = [t \in TaskIds |-> IdleTask]
    /\ left = MaxJoinedEvents
    /\ fails = 0
    /\ raised = FALSE
    /\ dropped = FALSE
    /\ lost = FALSE

\* The sessions that start at the four-participant lineup: the ones in which
\* the roster fills up.
SpecJoined == InitJoined /\ [][Next]_vars

\* Every session: from construction, or followed from the lineup of four on.
Start == Init \/ InitJoined

Spec == Start /\ [][Next]_vars

\* ======================================================================
\*                                 claims
\* ======================================================================
\* C1: in every reachable state the roster holds at most max_participants ids
\* and no id appears in it twice.
C1_RosterBounded ==
    /\ Len(participants_order) <= max_participants
    /\ \A i, j \in 1..Len(participants_order) :
          i # j => participants_order[i] # participants_order[j]

\* The roster is at capacity and a further user's reaction has been rejected
\* (its handler is sending the "lineup full" notice).
C1_Witness ==
    /\ Len(participants_order) = max_participants
    /\ \E t \in TaskIds : /\ tasks[t].pc = "notice"
                          /\ tasks[t].user \notin Range(participants_order)

\* C2: a reaction-added or reaction-removed event, rich or raw, changes the
\* roster only if its (channel, message) pair is in the anchor registry when
\* the event is handled.
C2_OnlyAnchorsDrive ==
    [][ \/ /\ participants_order' = participants_order
           /\ participants_names' = participants_names
        \/ \A m \in Msgs :
              <<ChannelOf(m), m>> \notin anchor_messages =>
                 \A u \in Actors, e \in Emojis :
                    /\ ~OnReactionRemove(u, m, e)
                    /\ ~OnRawReactionRemove(u, m, e)
                    /\ \A b \in BOOLEAN : /\ ~OnReactionAdd(u, m, e, b)
                                          /\ ~OnRawReactionAdd(u, m, e, b) ]_vars

\* A reaction with the configured emoji arrived on a message that had been
\* promoted and then forgotten, and was ignored.
C2_Witness ==
    /\ dropped
    /\ \E m \in Msgs : chat[m].promoted /\ <<ChannelOf(m), m>> \notin anchor_messages

\* The step in which a reset handler calls edit_original_response.
Finalizes(t) == tasks[t].pc # "clr_final" /\ tasks'[t].pc = "clr_final"

\* C3 as claimed: whenever a reset handler finalizes its acknowledgment, the
\* roster and the anchor registry are empty.
C3_EmptyAtFinalize ==
    [][ \A t \in TaskIds :
           Finalizes(t) => participants_order' = <<>> /\ anchor_messages' = {} ]_vars

\* C3 as amended: the roster and the registry are empty right after the reset
\* handler's clearing step, and they are empty when it finalizes unless another
\* handler added a participant or promoted an anchor in between.
C3_EmptyUnlessAddedSince ==
    [][ \A t \in TaskIds :
           /\ ClrDeferOk(t) =>
                 /\ participants_order' = <<>>
                 /\ participants_names' = NoNames
                 /\ anchor_messages' = {}
           /\ Finalizes(t) /\ ~tasks'[t].touched =>
                 /\ participants_order' = <<>>
                 /\ participants_names' = NoNames
                 /\ anchor_messages' = {} ]_vars

\* A reset that found two anchors is finalizing, and nothing was added since.
C3_Witness ==
    \E t \in TaskIds :
       /\ tasks[t].pc = "clr_final"
       /\ Cardinality(tasks[t].snap) = 2
       /\ ~tasks[t].touched
       /\ participants_order = <<>>
       /\ anchor_messages = {}

\* C4 as claimed: no handler terminates by raising.
C4_NoHandlerRaises == ~raised

\* The step in which a handler's display sync returns without raising (a raise
\* is a failed send, which is counted in fails).
SyncReturns(t) ==
    /\ tasks[t].pc \in SyncPcs
    /\ tasks'[t].pc \notin SyncPcs
    /\ fails' = fails

\* The messages in a channel that show a given text.
Showing(ps, channel, text) ==
    {i \in 1..Len(ps) :
        ps[i].alive /\ ps[i].channel = channel /\ ps[i].content = text}

\* C5 as claimed: when a display sync returns without raising, exactly one
\* message in the channel passed to it shows the rendering of the current
\* roster, and it is the recorded display message.
C5_OneCurrentDisplay ==
    [][ \A t \in TaskIds :
           SyncReturns(t) =>
              LET shown == Showing(posts', tasks[t].channel,
                              _lineup_text(participants_order', participants_names'))
              IN /\ Cardinality(shown) = 1
                 /\ lineup_channel_id' = tasks[t].channel
                 /\ PostIndex(lineup_message_id') \in shown ]_vars

\* No handler is running.
Quiescent == \A t \in TaskIds : tasks[t].kind = "idle"

\* C6 as claimed: once every handler has completed without raising, the
\* recorded display message (if it exists) shows the rendering of the roster.
C6_DisplayConverges ==
    (Quiescent /\ ~raised /\ lineup_message_id # None /\ Alive(lineup_message_id))
       => posts[PostIndex(lineup_message_id)].content
             = _lineup_text(participants_order, participants_names)

\* C7 as claimed: the "lineup full" notice is never sent to a user who is a
\* participant.
C7_NoticeOnlyWhenFull ==
    [][ \A t \in TaskIds :
           (tasks[t].pc # "notice" /\ tasks'[t].pc = "notice")
              => tasks'[t].user \notin Range(participants_order') ]_vars

\* C8: a reset attempts a retraction on every anchor of its snapshot and on no
\* other message, a failure on one anchor does not stop the others, and the
\* snapshot is the registry as it was, which is empty right after.
C8_EveryAnchorRetracted ==
    /\ [](\A t \in TaskIds :
             tasks[t].kind = "clear" =>
                /\ tasks[t].tried \subseteq tasks[t].snap
                /\ Range(tasks[t].todo) = tasks[t].snap \ tasks[t].tried
                /\ tasks[t].pc \in {"clr_fetch", "clr_unreact"} =>
                      <<tasks[t].fch, tasks[t].msg>> \in tasks[t].tried
                /\ tasks[t].pc \in SyncPcs \cup {"clr_final"} =>
                      tasks[t].tried = tasks[t].snap)
    /\ [][ \A t \in TaskIds :
              ClrDeferOk(t) => /\ tasks'[t].snap = anchor_messages
                               /\ anchor_messages' = {} ]_vars

\* A reset with two anchors in its snapshot is visiting the second one after
\* the retraction on the first one failed (the bot's reaction is still on it).
C8_Witness ==
    \E t \in TaskIds :
       /\ tasks[t].pc = "clr_fetch"
       /\ Cardinality(tasks[t].snap) = 2
       /\ tasks[t].tried = tasks[t].snap
       /\ fails = 1
       /\ \E a \in tasks[t].snap : a[2] # tasks[t].msg /\ a[2] \in botReact

C10_AnchorsQualify ==
    \A a \in anchor_messages :
       \E m \in Msgs :
          /\ a = <<ChannelOf(m), m>>
          /\ chat[m].seen
          /\ chat[m].author # bot_user
          /\ chat[m].roles \cap target_role_ids # {}

\* Two messages are anchors.
C10_Witness == Cardinality(anchor_messages) = 2

\* C11: in every reachable state, the ones seen by a handler resuming from a
\* platform call included, the ids in the join order are the keys of the
\* display-name mapping.
C11_OrderMatchesNames == Range(participants_order) = DOMAIN participants_names

\* A participant has left, others remain, and the handler of the removal is
\* suspended in its display sync.
C11_Witness ==
    /\ participants_order # <<>>
    /\ \E t \in TaskIds :
          /\ tasks[t].kind \in {"on_reaction_remove", "on_raw_reaction_remove"}
          /\ tasks[t].pc \in SyncPcs

\* C12: a sync whose fetch of the recorded display message fails because the
\* message was deleted goes on to send a new message with the current
\* rendering, without raising; when that send returns, the new message's id is
\* recorded in place of the old one; and a sync never attempts an edit on a
\* message its fetch failed on.
C12_DeletedDisplayRecreated ==
    [][ \A t \in TaskIds :
           /\ ( /\ tasks[t].pc \in {"ens_fetch", "upd_fetch"}
                /\ ~Alive(tasks[t].msg)
                /\ tasks'[t].pc # tasks[t].pc )
                 => /\ tasks'[t].pc \in {"ens_send", "upd_send"}
                    /\ tasks'[t].text =
                          _lineup_text(participants_order, participants_names)
                    /\ raised' = raised
           /\ ( /\ tasks[t].pc \in {"ens_send", "upd_send"}
                /\ \E id \in tasks[t].gone : ~Alive(id)
                /\ tasks'[t].pc # tasks[t].pc
                /\ fails' = fails )
                 => /\ Len(posts') = Len(posts) + 1
                    /\ Last(posts') = [channel |-> tasks[t].channel,
                                       content |-> tasks[t].text, alive |-> TRUE]
                    /\ lineup_channel_id' = tasks[t].channel
                    /\ lineup_message_id' = PostId(Len(posts'))
                    /\ lineup_message_id' \notin tasks[t].gone
                    /\ raised' = raised
           /\ tasks'[t].pc = "upd_edit" => tasks'[t].msg \notin tasks'[t].gone ]_vars

\* The display message was deleted, the sync of a later join found it gone,
\* sent a new one, and is now fetching or editing the new one, which is the
\* recorded display message.
C12_Witness ==
    \E t \in TaskIds :
       /\ tasks[t].kind \in {"on_reaction_add", "on_raw_reaction_add", "on_message"}
       /\ tasks[t].pc \in {"upd_fetch", "upd_edit"}
       /\ \E id \in tasks[t].gone : ~Alive(id)
       /\ tasks[t].msg = lineup_message_id
       /\ tasks[t].msg \notin tasks[t].gone
       /\ Alive(lineup_message_id)

\* The step in which a content-writing call of a handler's sync returns: a
\* send of a new message or an edit of an existing one.
Writes(t) == EnsSendOk(t) \/ UpdSendOk(t) \/ UpdEditOk(t)

\* C13 as claimed: a display sync performs exactly one content-writing
\* operation: a send or an edit is the first one of its sync, and a sync that
\* returns has made one.
C13_OneWritePerSync ==
    [][ \A t \in TaskIds :
           /\ Writes(t) => tasks[t].writes = 0
           /\ SyncReturns(t) => tasks[t].writes = 0 /\ Writes(t) ]_vars

\* C14: the roster order is join order: a step that changes the join order
\* empties it (reset, reconnect), or appends an id that was not in it, or takes
\* one id out and keeps the others in the order they had; so a participant
\* who leaves and joins again is last.
C14_JoinOrderKept ==
    [][ \/ participants_order' = participants_order
        \/ participants_order' = <<>>
        \/ \E u \in Users :
              \/ /\ u \notin Range(participants_order)
                 /\ participants_order' = Append(participants_order, u)
              \/ /\ u \in Range(participants_order)
                 /\ participants_order' =
                       SelectSeq(participants_order, LAMBDA x : x # u) ]_vars

\* User 2 left the lineup of 1, 2, 3, 4 and joined again: 3 and 4 moved up in
\* their order and 2 is last.
C14_Witness == participants_order = <<1, 3, 4, 2>>

\* The display names an add event may carry for a user.
NamesOf(u) == {display_name(u), user_name(u), synthetic_name(u)}

\* C15: from every roster the program reaches, calling _add_user twice in a
\* row with the same id (as the rich and the raw event of one reaction do):
\* the second call returns False and leaves the join order and the names as
\* the first call left them, whether the first call added the id or not.
C15_SecondAddRejected ==
    \A u \in Users : \A n1, n2 \in NamesOf(u) :
       LET first == _add_user(participants_order, participants_names, u, n1)
           second == _add_user(first.order, first.names, u, n2)
       IN /\ ~second.ok
          /\ second.order = first.order
          /\ second.names = first.names

\* Both cases have happened: the fifth participant was added by one event of
\* a reaction and rejected by the other (its handler is sending the notice),
\* and the roster is full, so that a further user's two calls are both
\* rejected.
C15_Witness ==
    /\ Len(participants_order) = max_participants
    /\ \E t \in TaskIds :
          /\ tasks[t].pc = "notice"
          /\ tasks[t].user = Last(participants_order)
    /\ \E u \in Users :
          ~_add_user(participants_order, participants_names, u, display_name(u)).ok
          /\ u \notin Range(participants_order)

\* A lineup text for a roster: numbered lines with the stored names in join
\* order, the READY header with all the ids in join order exactly at capacity,
\* the plain header below it, the empty-state text for no participant.
Renders(text, order, names) ==
    /\ text.lines = [i \in 1..Len(order) |-> <<i, names[order[i]]>>]
    /\ text.header = "ready" <=> Len(order) = max_participants
    /\ text.header = "plain" <=> (0 < Len(order) /\ Len(order) < max_participants)
    /\ text.header = "empty" <=> Len(order) = 0
    /\ text.mentions = IF Len(order) = max_participants THEN order ELSE <<>>

\* The lineup texts the bot has computed: the ones in its messages and the ones
\* its handlers are about to write.
LineupTexts ==
    {posts[i].content : i \in 1..Len(posts)} \cup {tasks[t].text : t \in TaskIds}

\* C16: the rendering of every roster the program reaches carries the READY
\* header and the mentions exactly when the roster is at capacity, and every
\* lineup text the bot has written or is writing does: READY exactly with
\* max_participants lines, mentioning the users of its lines in order.
C16_ReadyExactlyAtCapacity ==
    /\ Renders(_lineup_text(participants_order, participants_names),
               participants_order, participants_names)
    /\ \A text \in LineupTexts :
          text.header \in {"ready", "plain", "empty"} =>
             /\ text.header = "ready" <=> Len(text.lines) = max_participants
             /\ text.header = "empty" <=> Len(text.lines) = 0
             /\ text.header = "ready" =>
                   text.mentions = [i \in 1..Len(text.lines) |-> text.lines[i][2][2]]
             /\ text.header # "ready" => text.mentions = <<>>

\* The display message shows the full lineup with the READY header and the
\* five mentions, and the roster is at capacity.
C16_Witness ==
    /\ Len(participants_order) = max_participants
    /\ \E i \in 1..Len(posts) :
          /\ posts[i].alive
          /\ posts[i].content.header = "ready"
          /\ posts[i].content.mentions = participants_order

\* C17: a reconnect empties the roster and the anchor registry, leaves the
\* recorded display identity as it is, and makes no platform call: no message
\* is sent or edited, no reaction is retracted, no handler is left suspended.
C17_ReadyOnlyForgets ==
    [][ OnReady =>
           /\ participants_order' = <<>>
           /\ participants_names' = NoNames
           /\ anchor_messages' = {}
           /\ lineup_channel_id' = lineup_channel_id
           /\ lineup_message_id' = lineup_message_id
           /\ posts' = posts
           /\ botReact' = botReact
           /\ tasks' = tasks ]_vars

\* After a reconnect with no failure and no handler running: the roster and
\* the registry are empty, while the display message is still recorded, still
\* shows the participants, and the old anchor still carries the bot's reaction.
C17_Witness ==
    /\ Quiescent /\ fails = 0
    /\ participants_order = <<>>
    /\ anchor_messages = {}
    /\ lineup_channel_id # None
    /\ lineup_message_id # None
    /\ Alive(lineup_message_id)
    /\ posts[PostIndex(lineup_message_id)].content.header = "plain"
    /\ \E m \in Msgs : chat[m].promoted /\ m \in botReact

\* The place of a step in clear(): defer, the roster cleared, the registry
\* snapshotted and cleared, the retractions, the sync called, the sync
\* returned, edit_original_response.
Rank(step) ==
    CASE step = "defer" -> 1
      [] step = "roster" -> 2
      [] step = "registry" -> 3
      [] step = "retract" -> 4
      [] step = "sync" -> 5
      [] step = "synced" -> 6
      [] step = "final" -> 7

InOrder(log) ==
    \A i, j \in 1..Len(log) :
       i < j => /\ Rank(log[i]) <= Rank(log[j])
                /\ log[i] = log[j] => log[i] = "retract"

Retractions(log) == Cardinality({i \in 1..Len(log) : log[i] = "retract"})

\* C18: within every reset the steps occur in this order: the acknowledgment,
\* the clearing of the roster, the snapshot and clearing of the registry, the
\* retractions (one for every anchor of the snapshot, all before the sync is
\* called), the display sync, and the confirmation only after the sync has
\* returned; and the reset changes neither the roster nor the registry before
\* its acknowledgment has returned.
C18_ResetStepOrder ==
    /\ [](\A t \in TaskIds :
             tasks[t].kind = "clear" =>
                /\ InOrder(tasks[t].log)
                /\ tasks[t].pc = "clr_defer" => tasks[t].log = <<>>
                /\ tasks[t].pc # "clr_defer" =>
                      SubSeq(tasks[t].log, 1, 3) = <<"defer", "roster", "registry">>
                /\ tasks[t].pc \in {"clr_fetch", "clr_unreact"} =>
                      /\ Last(tasks[t].log) = "retract"
                      /\ tasks[t].writes = 0
                /\ tasks[t].pc \in SyncPcs =>
                      /\ Retractions(tasks[t].log) = Cardinality(tasks[t].snap)
                      /\ Last(tasks[t].log) = "sync"
                /\ tasks[t].pc = "clr_final" =>
                      /\ Retractions(tasks[t].log) = Cardinality(tasks[t].snap)
                      /\ SubSeq(tasks[t].log, Len(tasks[t].log) - 2, Len(tasks[t].log))
                            = <<"sync", "synced", "final">>)
    /\ [][ \A t \in TaskIds :
              /\ (tasks[t].kind # "clear" /\ tasks'[t].pc = "clr_defer") =>
                    /\ participants_order' = participants_order
                    /\ participants_names' = participants_names
                    /\ anchor_messages' = anchor_messages
              /\ (tasks[t].pc # "clr_final" /\ tasks'[t].pc = "clr_final") =>
                    tasks[t].pc \in SyncPcs ]_vars

\* A reset that found two anchors has sent its confirmation after taking every
\* step: acknowledgment, roster, registry, two retractions, sync.
C18_Witness ==
    \E t \in TaskIds :
       /\ tasks[t].pc = "clr_final"
       /\ tasks[t].log = <<"defer", "roster", "registry", "retract", "retract",
                           "sync", "synced", "final">>

\* C19 as claimed: no matching reaction of a user who is not a participant,
\* handled while the roster has room and after the bot has started handling
\* the message's qualifying mention, is ignored.
C19_ReactionNotLost == ~lost

\* An event whose author or actor is the bot itself.
BotEvent ==
    \/ \E m \in Msgs, r \in MentionChoices : OnMessage(m, bot_user, r)
    \/ \E m \in Msgs, e \in Emojis, b \in BOOLEAN :
          OnReactionAdd(bot_user, m, e, b) \/ OnRawReactionAdd(bot_user, m, e, b)
    \/ \E m \in Msgs, e \in Emojis :
          OnReactionRemove(bot_user, m, e) \/ OnRawReactionRemove(bot_user, m, e)

\* C20: in every reachable state the bot's own id is not in the roster, and
\* an event authored by the bot (a message of its own, the reaction it puts on
\* a new anchor) changes neither the roster nor the anchor registry and starts
\* no handler.
C20_BotNeverJoins ==
    /\ [](/\ bot_user \notin Range(participants_order)
          /\ bot_user \notin DOMAIN participants_names
          /\ \A m \in Msgs : chat[m].seen => chat[m].author # bot_user)
    /\ [][ BotEvent => UNCHANGED <<cogVars, tasks, chat>> ]_vars

\* The bot has put its reaction on two anchors, so the events of both
\* reactions were delivered to the listeners, and the roster holds the two
\* authors only.
C20_Witness ==
    /\ \A m \in Msgs : m \in botReact /\ _is_anchor(ChannelOf(m), m)
    /\ Len(participants_order) = 2
    /\ Range(participants_order) = {chat[m].author : m \in Msgs}
    /\ bot_user \notin Range(participants_order)

====
